---- MODULE Spec2Model ----
(***************************************************************************)
(* Model of the NER microservice in src/nlp_service/main.py.               *)
(*                                                                         *)
(* The process imports the module (which loads the spaCy model at module   *)
(* scope), then serves two routes.  Sync handlers run in the framework's   *)
(* thread pool, so several requests can be in flight at once; each client  *)
(* slot below is one in-flight request with its own local variables.       *)
(* A text is a sequence of characters; offsets are 0-based and half-open   *)
(* as in Python, so t[s:e] is SubSeq(t, s + 1, e).                          *)
(***************************************************************************)
EXTENDS Integers, Sequences, FiniteSets, TLC

\* ---- bounds -------------------------------------------------------------
MaxLen == 2                      \* longest request text explored

Alphabet == {"a", "b"}           \* characters of a request text
Labels == {"PERSON"}             \* entity categories of the loaded model
JsonInts == {123}                \* non-string JSON values sent as `text`
Clients == {"c1", "c2"}          \* concurrently handled requests
Routes == {"GET /", "POST /ner"}

\* ---- values -------------------------------------------------------------
ModelName == "en_core_web_sm"
RunningMessage == "NER microservice is running!"

Min(a, b) == IF a < b THEN a ELSE b

Strings == UNION {[1..n -> Alphabet] : n \in 0..MaxLen}

\* Python slice t[s:e] for 0 <= s <= e <= len(t)
Slice(t, s, e) == SubSeq(t, s + 1, e)

\* A JSON request body, reduced to what the schema layer looks at.
NoBody == [present |-> FALSE, jtype |-> "none", str |-> <<>>, num |-> 0]
StrBody(t) == [present |-> TRUE, jtype |-> "str", str |-> t, num |-> 0]
IntBody(n) == [present |-> TRUE, jtype |-> "int", str |-> <<>>, num |-> n]
Bodies == {NoBody} \cup {StrBody(t) : t \in Strings} \cup {IntBody(n) : n \in JsonInts}

NoRequest == [route |-> "none", body |-> NoBody]
NoTextRequest == [ok |-> FALSE, text |-> <<>>]
NoDoc == [text |-> <<>>, ents |-> <<>>]
NoResponse == [status |-> 0, message |-> "", entities |-> <<>>, input |-> <<>>]

\* ---- the schema layer: class TextRequest(BaseModel): text: str ----------
RECURSIVE DecStr(_)
DecStr(n) ==
    LET d == <<"0", "1", "2", "3", "4", "5", "6", "7", "8", "9">>[(n % 10) + 1]
    IN IF n < 10 THEN <<d>> ELSE DecStr(n \div 10) \o <<d>>

\* a lax schema that coerces a JSON number to its decimal string
TextRequestCoercing(body) ==
    IF body.present /\ body.jtype = "str" THEN [ok |-> TRUE, text |-> body.str]
    ELSE IF body.present /\ body.jtype = "int" THEN [ok |-> TRUE, text |-> DecStr(body.num)]
    ELSE NoTextRequest

TextRequest(body) ==
    IF body.present /\ body.jtype = "str"
    THEN [ok |-> TRUE, text |-> body.str]
    ELSE NoTextRequest

\* ---- the entity extractor: doc = nlp(text); doc.ents ---------------------
\* A span of the document: its text is the document's slice at its offsets.
Span(t, s, e, l) == [text |-> Slice(t, s, e), label_ |-> l, start_char |-> s, end_char |-> e]

\* The entity tuples a document over t may carry from offset `from` on:
\* non-empty spans, left to right, none overlapping the one before it.
RECURSIVE EntsFrom(_, _)
EntsFrom(t, from) ==
    {<<>>} \cup
    UNION {{<<Span(t, s, e, l)>> \o rest : rest \in EntsFrom(t, e)} :
           <<s, e, l>> \in {x \in (from..Len(t)) \X (from..Len(t)) \X Labels : x[1] < x[2]}}

\* The documents nlp(t) may return.
Nlp(t) == {[text |-> t, ents |-> es] : es \in EntsFrom(t, 0)}

\* ---- the handler's pure parts -------------------------------------------
\* lines 27-32 with the two offsets exchanged
EntityDictSwapped(ent) ==
    [text |-> ent.text, label |-> ent.label_,
     start_char |-> ent.end_char, end_char |-> ent.start_char]

\* lines 27-32: the dict built for one span
EntityDict(ent) ==
    [text |-> ent.text, label |-> ent.label_,
     start_char |-> ent.start_char, end_char |-> ent.end_char]

\* the comprehension walking doc.ents backwards
EntitiesReversed(d) == [i \in 1..Len(d.ents) |-> EntityDict(d.ents[Len(d.ents) + 1 - i])]

\* the comprehension keeping only the first span
EntitiesFirstOnly(d) == [i \in 1..Min(Len(d.ents), 1) |-> EntityDict(d.ents[i])]

\* lines 26-34: [ {...} for ent in doc.ents ]
Entities(d) == [i \in 1..Len(d.ents) |-> EntityDict(d.ents[i])]

\* line 36 echoing the text without its last character
NerResponseTruncated(entities, text) ==
    [status |-> 200, message |-> "", entities |-> entities,
     input |-> IF text = <<>> THEN text ELSE Slice(text, 0, Len(text) - 1)]

\* line 36: return {"entities": entities, "input": request.text}
NerResponse(entities, text) ==
    [status |-> 200, message |-> "", entities |-> entities, input |-> text]

\* the answers of the framework's validation and server-error layers
ValidationErrorResponse == [status |-> 422, message |-> "", entities |-> <<>>, input |-> <<>>]
ServerErrorResponse == [status |-> 500, message |-> "", entities |-> <<>>, input |-> <<>>]

\* ---- state --------------------------------------------------------------
VARIABLES
    proc,       \* "starting", "ready" or "failed": the process
    nlp,        \* the module-level model reference
    loads,      \* how many times spacy.load has been called
    history,    \* statuses of the requests answered so far
    pc,         \* per client: where its request is
    req,        \* per client: the HTTP request (route, body)
    request,    \* per client: the handler's `request` argument
    doc,        \* per client: the handler's local `doc`
    calls,      \* per client: calls of nlp(...) made for this request
    raised,     \* per client: the extractor raised for this request
    resp        \* per client: the response sent

vars == <<proc, nlp, loads, history, pc, req, request, doc, calls, raised, resp>>
server == <<proc, nlp, loads>>
locals == <<pc, req, request, doc, calls, raised, resp>>

Init ==
    /\ proc = "starting"
    /\ nlp = "None"
    /\ loads = 0
    /\ history = {}
    /\ pc = [c \in Clients |-> "idle"]
    /\ req = [c \in Clients |-> NoRequest]
    /\ request = [c \in Clients |-> NoTextRequest]
    /\ doc = [c \in Clients |-> NoDoc]
    /\ calls = [c \in Clients |-> 0]
    /\ raised = [c \in Clients |-> FALSE]
    /\ resp = [c \in Clients |-> NoResponse]

\* ---- process start ------------------------------------------------------
\* line 10 succeeds; the rest of the module runs and the server starts
LoadModel ==
    /\ proc = "starting"
    /\ loads = 0
    /\ nlp' = ModelName
    /\ loads' = loads + 1
    /\ proc' = "ready"
    /\ UNCHANGED <<history, locals>>

\* a load failure that is swallowed, the server starting without a model
LoadModelFailsSwallowed ==
    /\ proc = "starting"
    /\ loads = 0
    /\ loads' = loads + 1
    /\ proc' = "ready"
    /\ UNCHANGED <<nlp, history, locals>>

\* line 10 raises: the import fails and the process ends
LoadModelFails ==
    /\ proc = "starting"
    /\ loads = 0
    /\ loads' = loads + 1
    /\ proc' = "failed"
    /\ UNCHANGED <<nlp, history, locals>>

\* ---- requests -----------------------------------------------------------
\* a request arrives at the running server
Receive(c) ==
    /\ proc = "ready"
    /\ pc[c] = "idle"
    /\ \E r \in Routes, b \in Bodies :
          req' = [req EXCEPT ![c] = [route |-> r, body |-> IF r = "GET /" THEN NoBody ELSE b]]
    /\ pc' = [pc EXCEPT ![c] = "received"]
    /\ UNCHANGED <<server, history, request, doc, calls, raised, resp>>

\* the liveness route answering 503 once a request has failed
read_root_degrading ==
    [status |-> IF 500 \in history THEN 503 ELSE 200,
     message |-> RunningMessage, entities |-> <<>>, input |-> <<>>]

\* lines 13-15: return {"message": "NER microservice is running!"}
read_root ==
    [status |-> 200, message |-> RunningMessage, entities |-> <<>>, input |-> <<>>]

ReadRoot(c) ==
    /\ pc[c] = "received"
    /\ req[c].route = "GET /"
    /\ resp' = [resp EXCEPT ![c] = read_root]
    /\ pc' = [pc EXCEPT ![c] = "done"]
    /\ UNCHANGED <<server, history, req, request, doc, calls, raised>>

\* lines 18-19, 23: the body does not bind to TextRequest
RejectBody(c) ==
    /\ pc[c] = "received"
    /\ req[c].route = "POST /ner"
    /\ ~TextRequest(req[c].body).ok
    /\ resp' = [resp EXCEPT ![c] = ValidationErrorResponse]
    /\ pc' = [pc EXCEPT ![c] = "done"]
    /\ UNCHANGED <<server, history, req, request, doc, calls, raised>>

\* lines 18-19, 23: the body binds and the handler is entered
BindBody(c) ==
    /\ pc[c] = "received"
    /\ req[c].route = "POST /ner"
    /\ TextRequest(req[c].body).ok
    /\ request' = [request EXCEPT ![c] = TextRequest(req[c].body)]
    /\ pc' = [pc EXCEPT ![c] = "handler"]
    /\ UNCHANGED <<server, history, req, doc, calls, raised, resp>>

\* line 25 returns a document
CallNlp(c) ==
    /\ pc[c] = "handler"
    /\ nlp = ModelName
    /\ \E d \in Nlp(request[c].text) : doc' = [doc EXCEPT ![c] = d]
    /\ calls' = [calls EXCEPT ![c] = @ + 1]
    /\ pc' = [pc EXCEPT ![c] = "called"]
    /\ UNCHANGED <<server, history, req, request, raised, resp>>

\* the handler catching the exception and answering with no entities
NlpRaisesCaught(c) ==
    /\ pc[c] = "handler"
    /\ calls' = [calls EXCEPT ![c] = @ + 1]
    /\ raised' = [raised EXCEPT ![c] = TRUE]
    /\ resp' = [resp EXCEPT ![c] = NerResponse(<<>>, request[c].text)]
    /\ pc' = [pc EXCEPT ![c] = "done"]
    /\ UNCHANGED <<server, history, req, request, doc>>

\* the handler reloading the model after a failure
NlpRaisesReloading(c) ==
    /\ pc[c] = "handler"
    /\ calls' = [calls EXCEPT ![c] = @ + 1]
    /\ raised' = [raised EXCEPT ![c] = TRUE]
    /\ resp' = [resp EXCEPT ![c] = ServerErrorResponse]
    /\ pc' = [pc EXCEPT ![c] = "done"]
    /\ loads' = Min(loads + 1, 2)
    /\ UNCHANGED <<proc, nlp, history, req, request, doc>>

\* line 25 raises: nothing in the handler catches it, the server answers 500
NlpRaises(c) ==
    /\ pc[c] = "handler"
    /\ calls' = [calls EXCEPT ![c] = @ + 1]
    /\ raised' = [raised EXCEPT ![c] = TRUE]
    /\ resp' = [resp EXCEPT ![c] = ServerErrorResponse]
    /\ pc' = [pc EXCEPT ![c] = "done"]
    /\ UNCHANGED <<server, history, req, request, doc>>

\* lines 26-36 reading a document shared by all requests
ReturnEntitiesShared(c) ==
    /\ pc[c] = "called"
    /\ \E o \in {x \in Clients : pc[x] = "called"} :
          resp' = [resp EXCEPT ![c] = NerResponse(Entities(doc[o]), request[c].text)]
    /\ pc' = [pc EXCEPT ![c] = "done"]
    /\ UNCHANGED <<server, history, req, request, doc, calls, raised>>

\* lines 26-36: build the entity list from the local doc and return
ReturnEntities(c) ==
    /\ pc[c] = "called"
    /\ resp' = [resp EXCEPT ![c] = NerResponse(Entities(doc[c]), request[c].text)]
    /\ pc' = [pc EXCEPT ![c] = "done"]
    /\ UNCHANGED <<server, history, req, request, doc, calls, raised>>

\* the response has been delivered; the request's objects are discarded
Complete(c) ==
    /\ pc[c] = "done"
    /\ history' = history \cup {resp[c].status}
    /\ pc' = [pc EXCEPT ![c] = "idle"]
    /\ req' = [req EXCEPT ![c] = NoRequest]
    /\ request' = [request EXCEPT ![c] = NoTextRequest]
    /\ doc' = [doc EXCEPT ![c] = NoDoc]
    /\ calls' = [calls EXCEPT ![c] = 0]
    /\ raised' = [raised EXCEPT ![c] = FALSE]
    /\ resp' = [resp EXCEPT ![c] = NoResponse]
    /\ UNCHANGED server

Next ==
    \/ LoadModel
    \/ LoadModelFails
    \/ \E c \in Clients : Receive(c)
    \/ \E c \in Clients : ReadRoot(c)
    \/ \E c \in Clients : RejectBody(c)
    \/ \E c \in Clients : BindBody(c)
    \/ \E c \in Clients : CallNlp(c)
    \/ \E c \in Clients : NlpRaises(c)
    \/ \E c \in Clients : ReturnEntities(c)
    \/ \E c \in Clients : Complete(c)

Spec == Init /\ [][Next]_vars

TypeOK ==
    /\ proc \in {"starting", "ready", "failed"}
    /\ nlp \in {"None", ModelName}
    /\ loads \in 0..2
    /\ history \subseteq {200, 422, 500, 503}
    /\ \A c \in Clients :
          /\ pc[c] \in {"idle", "received", "handler", "called", "done"}
          /\ calls[c] \in 0..2
          /\ raised[c] \in BOOLEAN

\* ---- properties ---------------------------------------------------------
Answered(c) == pc[c] = "done"
NerRequest(c) == req[c].route = "POST /ner"
StringBody(c) == req[c].body.present /\ req[c].body.jtype = "str"
NerOk(c) == Answered(c) /\ NerRequest(c) /\ resp[c].status = 200

\* C1 as stated: every POST /ner whose text is a string is answered 200 with
\* `input` equal to the text.
C1_EveryStringGets200 ==
    \A c \in Clients :
        (Answered(c) /\ NerRequest(c) /\ StringBody(c)) =>
            (resp[c].status = 200 /\ resp[c].input = req[c].body.str)

\* C1 amended: a POST /ner whose text is a string t is answered 200 with
\* `input` equal to t exactly, unless the extractor raised for it, in which
\* case it is answered 500.
C1_EchoUnlessExtractorRaises ==
    \A c \in Clients :
        (Answered(c) /\ NerRequest(c) /\ StringBody(c)) =>
            IF raised[c]
            THEN resp[c].status = 500
            ELSE resp[c].status = 200 /\ resp[c].input = req[c].body.str

C1_Witness ==
    \E c \in Clients :
        /\ NerOk(c)
        /\ Len(req[c].body.str) = MaxLen
        /\ resp[c].input = req[c].body.str
        /\ resp[c].entities # <<>>

\* C2: a POST /ner whose body has no `text`, or a `text` that is not a
\* string, never reaches the extractor and is answered 422.
C2_InvalidBodyIs422 ==
    \A c \in Clients :
        (NerRequest(c) /\ ~StringBody(c)) =>
            /\ calls[c] = 0
            /\ pc[c] \in {"received", "done"}
            /\ Answered(c) => resp[c].status = 422

C2_Witness ==
    \E c, o \in Clients :
        /\ Answered(c) /\ NerRequest(c) /\ ~req[c].body.present
        /\ Answered(o) /\ NerRequest(o) /\ req[o].body.jtype = "int"
        /\ resp[c].status = 422 /\ resp[o].status = 422

\* C3: every entity of a 200 response lies inside the request text, is not
\* empty, and its text is the slice of the request text at its offsets.
C3_OffsetsSliceInput ==
    \A c \in Clients :
        NerOk(c) =>
            \A i \in 1..Len(resp[c].entities) :
                LET e == resp[c].entities[i]
                    t == req[c].body.str
                IN /\ 0 <= e.start_char
                   /\ e.start_char < e.end_char
                   /\ e.end_char <= Len(t)
                   /\ Slice(t, e.start_char, e.end_char) = e.text

C3_Witness ==
    \E c \in Clients :
        /\ NerOk(c)
        /\ \E i \in 1..Len(resp[c].entities) :
              /\ resp[c].entities[i].start_char > 0
              /\ resp[c].entities[i].text = <<"b">>
              /\ req[c].body.str[1] = "a"

\* C4: the entities of a 200 response are in ascending start_char order and
\* no span overlaps the next one; the order is the extractor's own order.
C4_SortedNonOverlapping ==
    \A c \in Clients :
        NerOk(c) =>
            /\ \A i \in 1..(Len(resp[c].entities) - 1) :
                  /\ resp[c].entities[i].start_char < resp[c].entities[i + 1].start_char
                  /\ resp[c].entities[i].end_char <= resp[c].entities[i + 1].start_char
            /\ \A i \in 1..Len(resp[c].entities) :
                  i <= Len(doc[c].ents) =>
                      resp[c].entities[i].start_char = doc[c].ents[i].start_char

C4_Witness ==
    \E c \in Clients :
        /\ NerOk(c)
        /\ Len(resp[c].entities) >= 2
        /\ resp[c].entities[1].end_char = resp[c].entities[2].start_char

\* C5: the extractor is called at most once per request, and a request for
\* which it raised is answered 500 with no entity list.
C5_ExtractorFailureIs500 ==
    \A c \in Clients :
        /\ calls[c] <= 1
        /\ raised[c] =>
              /\ Answered(c)
              /\ calls[c] = 1
              /\ resp[c].status = 500
              /\ resp[c].entities = <<>>

C5_Witness ==
    \E c \in Clients :
        /\ raised[c] /\ Answered(c) /\ resp[c].status = 500
        /\ request[c].text # <<>>

\* C6: GET / is answered 200 with the fixed non-empty message whatever was
\* answered before, and without calling the extractor.
C6_RootAlwaysRunning ==
    \A c \in Clients :
        (Answered(c) /\ req[c].route = "GET /") =>
            /\ resp[c].status = 200
            /\ resp[c].message = RunningMessage
            /\ resp[c].message # ""
            /\ calls[c] = 0

C6_Witness ==
    \E c \in Clients :
        /\ Answered(c) /\ req[c].route = "GET /"
        /\ resp[c].status = 200
        /\ history = {200, 422, 500}

\* C7: the model is loaded once, before any request is taken; a process
\* whose load failed takes and answers no request, never becomes ready and
\* never loads again.
C7_LoadedOnceBeforeServing ==
    /\ [](/\ loads <= 1
          /\ proc = "ready" => (nlp = ModelName /\ loads = 1)
          /\ proc # "ready" => (history = {} /\ \A c \in Clients : pc[c] = "idle"))
    /\ [][proc = "failed" => (proc' = "failed" /\ loads' = loads /\ nlp' = nlp)]_vars

C7_Witness ==
    /\ proc = "failed"
    /\ loads = 1
    /\ nlp = "None"

\* C8: a 200 response comes from one extractor call on the request text and
\* carries the extractor's spans one for one, in order, field by field.
C8_EntitiesMirrorSpans ==
    \A c \in Clients :
        NerOk(c) =>
            /\ calls[c] = 1
            /\ doc[c].text = req[c].body.str
            /\ Len(resp[c].entities) = Len(doc[c].ents)
            /\ \A i \in 1..Len(doc[c].ents) :
                  /\ resp[c].entities[i].text = doc[c].ents[i].text
                  /\ resp[c].entities[i].label = doc[c].ents[i].label_
                  /\ resp[c].entities[i].start_char = doc[c].ents[i].start_char
                  /\ resp[c].entities[i].end_char = doc[c].ents[i].end_char

C8_Witness ==
    \E c \in Clients :
        /\ NerOk(c)
        /\ Len(doc[c].ents) = 2
        /\ resp[c].entities[1].label = "PERSON"
        /\ resp[c].entities[1].text = <<"a">>
        /\ resp[c].entities[2].text = <<"b">>

\* C9: with several requests in flight, a 200 response carries its own
\* request's text and the entities of the document made from that text.
C9_ResponseFromOwnRequest ==
    \A c \in Clients :
        NerOk(c) =>
            /\ resp[c].input = req[c].body.str
            /\ doc[c].text = req[c].body.str
            /\ resp[c].entities = [i \in 1..Len(doc[c].ents) |-> EntityDict(doc[c].ents[i])]

C9_Witness ==
    \E c, o \in Clients :
        /\ c # o
        /\ NerOk(c)
        /\ pc[o] = "called"
        /\ doc[o].text # doc[c].text
        /\ doc[o].ents # <<>>
        /\ doc[c].ents # <<>>

\* C10: once the server is ready, no step changes the model reference, the
\* load count or the process state.
C10_ServerStateFrozen ==
    [][proc = "ready" => (proc' = proc /\ nlp' = nlp /\ loads' = loads)]_vars

C10_Witness ==
    /\ proc = "ready"
    /\ nlp = ModelName
    /\ loads = 1
    /\ history = {200, 422, 500}
    /\ \A c \in Clients : pc[c] = "idle"
====
